---- MODULE Spec2Model ----
(***************************************************************************)
(* Model of app.py (Sistema Comex): the five Streamlit pages, the helpers  *)
(* they call (get_table_columns, get_available_tables, execute_query),     *)
(* the SQLite store they read through pandas.read_sql_query, and the       *)
(* ingestion coordinator that replaces tables of the store.                *)
(*                                                                         *)
(* A text (a Python str) is a sequence of fragments; the str is the        *)
(* concatenation of the fragments.  User-typed values are sequences of     *)
(* one-character fragments, so that prefixes, substrings and LIKE patterns *)
(* are computed character by character.  Runs of white space of the        *)
(* triple-quoted query literals are written as one space.                  *)
(* An optional value (None or a value) is a sequence of length 0 or 1.     *)
(***************************************************************************)
EXTENDS Integers, Sequences, FiniteSets, TLC

None == <<>>
Some(x) == <<x>>

Min(a, b) == IF a < b THEN a ELSE b

\* s[:n]
Take(s, n) == SubSeq(s, 1, Min(n, Len(s)))

\* s[n:]
Drop(s, n) == SubSeq(s, n + 1, Len(s))

\* sep.join(texts), every element a text
RECURSIVE JoinT(_, _)
JoinT(texts, sep) ==
    IF texts = <<>> THEN <<>>
    ELSE IF Len(texts) = 1 THEN texts[1]
    ELSE texts[1] \o <<sep>> \o JoinT(Tail(texts), sep)

\* sep.join(names), every element one fragment
Join(names, sep) == JoinT([i \in DOMAIN names |-> <<names[i]>>], sep)

\* first index of fragment tok in s, 0 when absent
Pos(s, tok) ==
    IF \E i \in DOMAIN s : s[i] = tok
    THEN CHOOSE i \in DOMAIN s : s[i] = tok /\ \A j \in 1..(i - 1) : s[j] # tok
    ELSE 0

RECURSIVE SplitOn(_, _)
SplitOn(s, sep) ==
    LET p == Pos(s, sep)
    IN IF p = 0 THEN <<s>>
       ELSE <<SubSeq(s, 1, p - 1)>> \o SplitOn(Drop(s, p), sep)

Range(s) == {s[i] : i \in DOMAIN s}

\* the sequences without repetition over set S of length at most n
RECURSIVE Pick(_, _)
Pick(S, n) ==
    IF n = 0 THEN {<<>>}
    ELSE LET shorter == Pick(S, n - 1)
         IN shorter \cup {Append(q, x) : q \in shorter, x \in S}

Selections(S, n) == {q \in Pick(S, n) : Cardinality(Range(q)) = Len(q)}

\* a str is truthy when it is not empty
Truthy(text) == \E i \in DOMAIN text : text[i] # ""

(***************************************************************************)
(* The store: the SQLite file cnpj.db.  It is the sequence of its tables   *)
(* in catalog (sqlite_master) order; a table has a name, ordered columns   *)
(* and rows, a row being the sequence of its cells in column order.  The   *)
(* cells of a numeric column are integers, those of a text column are      *)
(* texts of one-character fragments or Null.                               *)
(***************************************************************************)
NumericColumns == {"CO_ANO", "CO_MES", "VL_FOB", "KG_LIQUIDO", "QT_ESTAT", "capital_social", "VL", "ANO"}

Null == <<"", "NULL">>

HasTable(st, t) == \E i \in DOMAIN st : st[i].name = t

Table(st, t) == st[CHOOSE i \in DOMAIN st : st[i].name = t]

Without(st, t) == SelectSeq(st, LAMBDA tb : tb.name # t)

Cell(tb, row, c) == row[Pos(tb.columns, c)]

DigitChar == <<"0", "1", "2", "3", "4", "5", "6", "7", "8", "9">>

\* str(n) for n >= 0
RECURSIVE IntText(_)
IntText(n) ==
    IF n < 10 THEN <<DigitChar[n + 1]>>
    ELSE IntText(n \div 10) \o <<DigitChar[(n % 10) + 1]>>

\* SQLite's LIKE folds the case of ASCII letters
Fold(ch) == CASE ch = "A" -> "a" [] ch = "B" -> "b" [] OTHER -> ch

\* SQLite's LIKE: % matches any run of characters, _ any one character
RECURSIVE LikeMatch(_, _)
LikeMatch(pat, s) ==
    IF pat = <<>> THEN s = <<>>
    ELSE IF Head(pat) = "%"
         THEN LikeMatch(Tail(pat), s) \/ (s # <<>> /\ LikeMatch(pat, Tail(s)))
         ELSE /\ s # <<>>
              /\ (Head(pat) = "_" \/ Fold(Head(pat)) = Fold(Head(s)))
              /\ LikeMatch(Tail(pat), Tail(s))

\* the text SQLite compares in a LIKE: a number is rendered, NULL matches nothing
CellLike(c, cell, pat) ==
    IF c \in NumericColumns THEN LikeMatch(pat, IntText(cell))
    ELSE cell # Null /\ LikeMatch(pat, cell)

\* the value SUM adds for a cell: text that is no number and NULL add nothing
NumVal(c, cell) == IF c \in NumericColumns THEN cell ELSE 0

RECURSIVE SumOver(_, _, _)
SumOver(tb, rows, c) ==
    IF rows = <<>> THEN 0
    ELSE NumVal(c, Cell(tb, Head(rows), c)) + SumOver(tb, Tail(rows), c)

\* first occurrences of the elements of s, in order
RECURSIVE Distinct(_)
Distinct(s) ==
    IF s = <<>> THEN <<>>
    ELSE LET front == Distinct(SubSeq(s, 1, Len(s) - 1))
             x == s[Len(s)]
         IN IF x \in Range(front) THEN front ELSE Append(front, x)

Reverse(s) == [i \in DOMAIN s |-> s[Len(s) + 1 - i]]

\* stable insertion of x into keyed, sorted by .key (descending when desc)
InsertKeyed(keyed, x, desc) ==
    LET n == Cardinality({i \in DOMAIN keyed :
                 IF desc THEN keyed[i].key >= x.key ELSE keyed[i].key <= x.key})
    IN SubSeq(keyed, 1, n) \o <<x>> \o SubSeq(keyed, n + 1, Len(keyed))

RECURSIVE SortKeyed(_, _)
SortKeyed(keyed, desc) ==
    IF keyed = <<>> THEN <<>>
    ELSE InsertKeyed(SortKeyed(SubSeq(keyed, 1, Len(keyed) - 1), desc),
                     keyed[Len(keyed)], desc)

(***************************************************************************)
(* pandas.read_sql_query(text, conn, params) on the store.  The statement  *)
(* forms covered are the ones the program issues and the ad-hoc samples:   *)
(*   SELECT [DISTINCT] items FROM t [WHERE preds] [GROUP BY g]             *)
(*          [ORDER BY key [DESC]] [LIMIT n]                                *)
(*     item: c | SUM(c) as a      pred: c LIKE 'pattern' | c = ?           *)
(*     key:  c | SUM(c)                                                    *)
(*   the fixed Empresas/Estabelecimentos join of show_cnpj_search,         *)
(*   PRAGMA table_info(t), the sqlite_master listing,                      *)
(*   DROP TABLE t (DDL) and DELETE FROM t (DML).                           *)
(* Every other text is a syntax error.                                     *)
(***************************************************************************)
Keywords == <<" FROM ", " WHERE ", " GROUP BY ", " ORDER BY ", " LIMIT ">>

Punctuation ==
    Range(Keywords) \cup {"SELECT ", "DISTINCT ", ", ", "SUM(", ") as ", ")", " DESC",
                          " LIKE ", "'", " = ?", " AND ", ""}

IsKeyword(tok) == tok \in Range(Keywords)

IsName(tok) == tok \notin Punctuation

SetMin(S) == CHOOSE x \in S : \A y \in S : x <= y

\* the fragments that follow keyword kw, up to the next keyword
Segment(text, kw) ==
    LET p == Pos(text, kw)
        later == {i \in (p + 1)..Len(text) : IsKeyword(text[i])}
        stop == IF later = {} THEN Len(text) + 1 ELSE SetMin(later)
    IN IF p = 0 THEN <<>> ELSE SubSeq(text, p + 1, stop - 1)

KeywordsInOrder(text) ==
    LET kws == SelectSeq(text, IsKeyword)
    IN /\ kws # <<>>
       /\ kws[1] = " FROM "
       /\ \A i, j \in DOMAIN kws : i < j => Pos(Keywords, kws[i]) < Pos(Keywords, kws[j])

ItemOk(it) ==
    \/ Len(it) = 1 /\ IsName(it[1])
    \/ Len(it) = 4 /\ it[1] = "SUM(" /\ IsName(it[2]) /\ it[3] = ") as " /\ IsName(it[4])

ParseItem(it) ==
    IF Len(it) = 1 THEN [col |-> it[1], agg |-> FALSE, alias |-> it[1]]
    ELSE [col |-> it[2], agg |-> TRUE, alias |-> it[4]]

PredOk(pr) ==
    \/ Len(pr) = 2 /\ IsName(pr[1]) /\ pr[2] = " = ?"
    \/ /\ Len(pr) >= 4
       /\ IsName(pr[1]) /\ pr[2] = " LIKE " /\ pr[3] = "'" /\ pr[Len(pr)] = "'"
       /\ \A i \in 4..(Len(pr) - 1) : pr[i] # "'" /\ pr[i] # "" /\ ~IsKeyword(pr[i])

ParsePred(pr) ==
    IF Len(pr) = 2 THEN [col |-> pr[1], like |-> FALSE, pattern |-> <<>>]
    ELSE [col |-> pr[1], like |-> TRUE, pattern |-> SubSeq(pr, 4, Len(pr) - 1)]

OrderOk(seg) ==
    LET key == IF seg # <<>> /\ seg[Len(seg)] = " DESC"
               THEN SubSeq(seg, 1, Len(seg) - 1) ELSE seg
    IN \/ Len(key) = 1 /\ IsName(key[1])
       \/ Len(key) = 3 /\ key[1] = "SUM(" /\ IsName(key[2]) /\ key[3] = ")"

ParseOrder(seg) ==
    LET desc == seg[Len(seg)] = " DESC"
        key == IF desc THEN SubSeq(seg, 1, Len(seg) - 1) ELSE seg
    IN IF Len(key) = 1 THEN [col |-> key[1], agg |-> FALSE, desc |-> desc]
       ELSE [col |-> key[2], agg |-> TRUE, desc |-> desc]

\* the select list: the fragments between SELECT [DISTINCT] and FROM
SelectList(text) ==
    LET upto == SubSeq(text, 2, Pos(text, " FROM ") - 1)
    IN IF upto # <<>> /\ upto[1] = "DISTINCT " THEN Tail(upto) ELSE upto

SelectOk(text) ==
    /\ text # <<>> /\ text[1] = "SELECT "
    /\ KeywordsInOrder(text)
    /\ LET items == SplitOn(SelectList(text), ", ")
       IN \A i \in DOMAIN items : ItemOk(items[i])
    /\ LET from == Segment(text, " FROM ") IN Len(from) = 1 /\ IsName(from[1])
    /\ Pos(text, " WHERE ") > 0 =>
          LET preds == SplitOn(Segment(text, " WHERE "), " AND ")
          IN \A i \in DOMAIN preds : PredOk(preds[i])
    /\ Pos(text, " GROUP BY ") > 0 =>
          LET g == Segment(text, " GROUP BY ") IN Len(g) = 1 /\ IsName(g[1])
    /\ Pos(text, " ORDER BY ") > 0 => OrderOk(Segment(text, " ORDER BY "))
    /\ Pos(text, " LIMIT ") > 0 =>
          LET n == Segment(text, " LIMIT ") IN Len(n) = 1 /\ Pos(DigitChar, n[1]) > 0

ParseSelect(text) ==
    LET rawItems == SplitOn(SelectList(text), ", ")
        rawPreds == IF Pos(text, " WHERE ") > 0
                    THEN SplitOn(Segment(text, " WHERE "), " AND ") ELSE <<>>
    IN [distinct |-> text[2] = "DISTINCT ",
        items |-> [i \in DOMAIN rawItems |-> ParseItem(rawItems[i])],
        table |-> Segment(text, " FROM ")[1],
        preds |-> [i \in DOMAIN rawPreds |-> ParsePred(rawPreds[i])],
        group |-> Segment(text, " GROUP BY "),
        order |-> IF Pos(text, " ORDER BY ") > 0
                  THEN Some(ParseOrder(Segment(text, " ORDER BY "))) ELSE None,
        limit |-> IF Pos(text, " LIMIT ") > 0
                  THEN Some(Pos(DigitChar, Segment(text, " LIMIT ")[1]) - 1) ELSE None]

Frame(columns, rows) == [columns |-> columns, rows |-> rows]

NoFrame == Frame(<<>>, <<>>)

Returned(df, st) == [raised |-> FALSE, df |-> df, msg |-> <<>>, after |-> st]

Raised(msg, st) == [raised |-> TRUE, df |-> NoFrame, msg |-> msg, after |-> st]

\* pandas wraps what the cursor raises: DatabaseError(f"Execution failed on sql '{sql}': {exc}")
DatabaseError(text, detail) == <<"Execution failed on sql '">> \o text \o <<"': ">> \o detail

\* a statement that returns no rows has cursor.description None, which pandas iterates
NotIterable == <<"'NoneType' object is not iterable">>

RECURSIVE Flatten(_)
Flatten(ss) == IF ss = <<>> THEN <<>> ELSE Head(ss) \o Flatten(Tail(ss))

\* the parameter bound to the k-th predicate: the ?s are numbered left to right
ParamIndex(preds, k) == Cardinality({i \in 1..k : ~preds[i].like})

\* a bound parameter is None (SQL NULL, equal to nothing) or a value
PredHolds(tb, row, pr, param) ==
    IF pr.like THEN CellLike(pr.col, Cell(tb, row, pr.col), pr.pattern)
    ELSE param # None /\ Cell(tb, row, pr.col) = param[1]

\* an ORDER BY name is a result alias when one has that name, else a column
OrderAlias(q) ==
    {i \in DOMAIN q.items : q.order # None /\ ~q.order[1].agg
                            /\ q.items[i].agg /\ q.items[i].alias = q.order[1].col}

ColumnRefs(q) ==
    {q.items[i].col : i \in DOMAIN q.items}
        \cup {q.preds[i].col : i \in DOMAIN q.preds}
        \cup Range(q.group)
        \cup (IF q.order # None /\ OrderAlias(q) = {} THEN {q.order[1].col} ELSE {})

\* WHERE: the rows that satisfy every predicate
Filtered(tb, q, params) ==
    SelectSeq(tb.rows, LAMBDA r :
        \A k \in DOMAIN q.preds :
            PredHolds(tb, r, q.preds[k],
                      IF q.preds[k].like THEN None ELSE params[ParamIndex(q.preds, k)]))

\* the engine's order among groups of equal sort key is unspecified: the groups are
\* taken in first-appearance order, or in the reverse of it when tie is TRUE
GroupKeys(tb, q, rows, tie) ==
    IF tie THEN Reverse(Distinct([i \in DOMAIN rows |-> Cell(tb, rows[i], q.group[1])]))
    ELSE Distinct([i \in DOMAIN rows |-> Cell(tb, rows[i], q.group[1])])

GroupsOf(tb, q, rows, keys) ==
    [k \in DOMAIN keys |-> SelectSeq(rows, LAMBDA r : Cell(tb, r, q.group[1]) = keys[k])]

\* GROUP BY: one group a key; an aggregate without GROUP BY makes one group of all
\* rows; without either every row is its own group
Groups(tb, q, rows, tie) ==
    IF q.group # <<>> THEN GroupsOf(tb, q, rows, GroupKeys(tb, q, rows, tie))
    ELSE IF \E i \in DOMAIN q.items : q.items[i].agg THEN <<rows>>
    ELSE [i \in DOMAIN rows |-> <<rows[i]>>]

\* a result cell of a group: the sum, or the column's value in the group's first row
Value(tb, grp, item) ==
    IF item.agg THEN SumOver(tb, grp, item.col)
    ELSE IF grp = <<>> THEN Null
    ELSE Cell(tb, grp[1], item.col)

OrderKey(tb, q, grp) ==
    IF q.order = None THEN 0
    ELSE IF q.order[1].agg THEN SumOver(tb, grp, q.order[1].col)
    ELSE IF OrderAlias(q) # {} THEN Value(tb, grp, q.items[SetMin(OrderAlias(q))])
    ELSE Cell(tb, grp[1], q.order[1].col)

Keyed(tb, q, groups) ==
    [i \in DOMAIN groups |->
        [key |-> OrderKey(tb, q, groups[i]),
         row |-> [j \in DOMAIN q.items |-> Value(tb, groups[i], q.items[j])]]]

\* ORDER BY
Ordered(q, keyed) == IF q.order = None THEN keyed ELSE SortKeyed(keyed, q.order[1].desc)

RowsOf(keyed) == [i \in DOMAIN keyed |-> keyed[i].row]

\* DISTINCT
Deduped(q, rows) == IF q.distinct THEN Distinct(rows) ELSE rows

\* LIMIT
Limited(q, rows) == IF q.limit = None THEN rows ELSE Take(rows, q.limit[1])

SelectRows(tb, q, params, tie) ==
    Limited(q, Deduped(q, RowsOf(Ordered(q,
        Keyed(tb, q, Groups(tb, q, Filtered(tb, q, params), tie))))))

EvalOn(st, text, q, params, tie, tb) ==
    IF ColumnRefs(q) \ Range(tb.columns) # {}
    THEN Raised(DatabaseError(text, <<"no such column: ",
                                      CHOOSE c \in ColumnRefs(q) \ Range(tb.columns) : TRUE>>), st)
    ELSE IF Cardinality({i \in DOMAIN q.preds : ~q.preds[i].like}) # Len(params)
    THEN Raised(DatabaseError(text, <<"Incorrect number of bindings supplied.">>), st)
    ELSE Returned(Frame([i \in DOMAIN q.items |-> q.items[i].alias],
                        SelectRows(tb, q, params, tie)), st)

EvalSelect(st, text, q, params, tie) ==
    IF ~HasTable(st, q.table)
    THEN Raised(DatabaseError(text, <<"no such table: ", q.table>>), st)
    ELSE EvalOn(st, text, q, params, tie, Table(st, q.table))

MasterQuery == <<"SELECT name FROM sqlite_master WHERE type='table'">>

CnpjQuery ==
    <<"SELECT e.*, est.* FROM Empresas e LEFT JOIN Estabelecimentos est ON e.cnpj_basico = est.cnpj_basico WHERE e.cnpj_basico = ?">>

\* LEFT JOIN: a row of e with every matching row of est, or with NULLs when none matches
LeftJoined(r, matches, width) ==
    IF matches = <<>> THEN <<r \o [i \in 1..width |-> Null]>>
    ELSE [i \in DOMAIN matches |-> r \o matches[i]]

JoinRows(e, est, found) ==
    Flatten([i \in DOMAIN found |->
                LeftJoined(found[i],
                           SelectSeq(est.rows, LAMBDA x :
                               Cell(est, x, "cnpj_basico") = Cell(e, found[i], "cnpj_basico")),
                           Len(est.columns))])

EvalJoinOn(st, text, params, e, est) ==
    IF "cnpj_basico" \notin Range(e.columns)
    THEN Raised(DatabaseError(text, <<"no such column: ", "e.cnpj_basico">>), st)
    ELSE IF "cnpj_basico" \notin Range(est.columns)
    THEN Raised(DatabaseError(text, <<"no such column: ", "est.cnpj_basico">>), st)
    ELSE IF Len(params) # 1
    THEN Raised(DatabaseError(text, <<"Incorrect number of bindings supplied.">>), st)
    ELSE Returned(Frame(e.columns \o est.columns,
                        JoinRows(e, est, SelectSeq(e.rows, LAMBDA r :
                            params[1] # None /\ Cell(e, r, "cnpj_basico") = params[1][1]))),
                  st)

EvalCnpjJoin(st, text, params) ==
    IF ~HasTable(st, "Empresas")
    THEN Raised(DatabaseError(text, <<"no such table: ", "Empresas">>), st)
    ELSE IF ~HasTable(st, "Estabelecimentos")
    THEN Raised(DatabaseError(text, <<"no such table: ", "Estabelecimentos">>), st)
    ELSE EvalJoinOn(st, text, params, Table(st, "Empresas"), Table(st, "Estabelecimentos"))

\* PRAGMA table_info(t): one row a column, (cid, name, ...); no row for an unknown table
TableInfo(st, t) ==
    IF HasTable(st, t)
    THEN [i \in DOMAIN Table(st, t).columns |-> <<i - 1, Table(st, t).columns[i]>>]
    ELSE <<>>

\* read_sql_query: the cursor executes the statement, then pandas reads
\* cursor.description and fetches.  A DDL statement runs in autocommit and its effect
\* stays; a DML statement opens a transaction that is never committed, so its effect
\* is rolled back when the connection goes away.
Exec(st, text, params, tie) ==
    IF text = MasterQuery
    THEN Returned(Frame(<<"name">>, [i \in DOMAIN st |-> <<st[i].name>>]), st)
    ELSE IF Len(text) = 3 /\ text[1] = "PRAGMA table_info(" /\ text[3] = ")"
    THEN Returned(Frame(<<"cid", "name">>, TableInfo(st, text[2])), st)
    ELSE IF text = CnpjQuery THEN EvalCnpjJoin(st, text, params)
    ELSE IF Len(text) = 2 /\ text[1] = "DROP TABLE " /\ IsName(text[2])
    THEN IF HasTable(st, text[2]) THEN Raised(NotIterable, Without(st, text[2]))
         ELSE Raised(DatabaseError(text, <<"no such table: ", text[2]>>), st)
    ELSE IF Len(text) = 2 /\ text[1] = "DELETE FROM " /\ IsName(text[2])
    THEN IF HasTable(st, text[2]) THEN Raised(NotIterable, st)
         ELSE Raised(DatabaseError(text, <<"no such table: ", text[2]>>), st)
    ELSE IF SelectOk(text) THEN EvalSelect(st, text, ParseSelect(text), params, tie)
    ELSE Raised(DatabaseError(text, <<"syntax error">>), st)

(***************************************************************************)
(* The program.  fx is what a call can change: the store, the connections  *)
(* the interaction opened and closed, and the statements it executed.  A   *)
(* function of app.py is one operator, followed by operators for the rest  *)
(* of its body after each call it makes.                                   *)
(***************************************************************************)
Fx(st) == [st |-> st, opened |-> 0, closed |-> 0, log |-> <<>>]

get_db_connection(fx) == [fx EXCEPT !.opened = @ + 1]

\* conn.close()
Close(fx) == [fx EXCEPT !.closed = @ + 1]

Executed(fx, text, params, r) ==
    [raised |-> r.raised, df |-> r.df, msg |-> r.msg,
     fx |-> [fx EXCEPT !.st = r.after,
                       !.log = Append(@, [text |-> text, params |-> params,
                                          raised |-> r.raised])]]

\* pd.read_sql_query(text, conn, params=params), or cursor.execute and fetchall
read_sql_query(fx, text, params, tie) == Executed(fx, text, params, Exec(fx.st, text, params, tie))

\* variant: the listing without its first column
ColumnNamesAfterFirst(cur) ==
    [value |-> [i \in 1..(Len(cur.df.rows) - 1) |-> cur.df.rows[i + 1][2]], fx |-> Close(cur.fx)]

\* columns = [col[1] for col in cursor.fetchall()]; conn.close()
ColumnNames(cur) ==
    [value |-> [i \in DOMAIN cur.df.rows |-> cur.df.rows[i][2]], fx |-> Close(cur.fx)]

get_table_columns(fx, table_name) ==
    ColumnNames(read_sql_query(get_db_connection(fx),
                               <<"PRAGMA table_info(", table_name, ")">>, <<>>, FALSE))

\* tables = [table[0] for table in cursor.fetchall()]; conn.close()
TableNames(cur) ==
    [value |-> [i \in DOMAIN cur.df.rows |-> cur.df.rows[i][1]], fx |-> Close(cur.fx)]

get_available_tables(fx) ==
    TableNames(read_sql_query(get_db_connection(fx), MasterQuery, <<>>, FALSE))

\* variant: the except branch returning the frame along with the message
QueryReturnBoth(r) ==
    IF r.raised THEN [df |-> Some(r.df), error |-> Some(r.msg), fx |-> r.fx]
    ELSE [df |-> Some(r.df), error |-> None, fx |-> Close(r.fx)]

\* variant: execute_query saving the frame as a table before it returns
QueryReturnWritten(r) ==
    IF r.raised THEN [df |-> None, error |-> Some(r.msg), fx |-> r.fx]
    ELSE [df |-> Some(r.df), error |-> None,
          fx |-> Close([r.fx EXCEPT !.st = Append(@, [name |-> "resultado",
                                                     columns |-> r.df.columns,
                                                     rows |-> r.df.rows])])]

\* execute_query after read_sql_query: return df, None or, in the except branch,
\* return None, str(e)
QueryReturn(r) ==
    IF r.raised THEN [df |-> None, error |-> Some(r.msg), fx |-> r.fx]
    ELSE [df |-> Some(r.df), error |-> None, fx |-> Close(r.fx)]

\* the pair (df, error) execute_query returns, and what the call changed
execute_query(fx, query, tie) ==
    QueryReturn(read_sql_query(get_db_connection(fx), query, <<>>, tie))

\* df.to_csv(index=False): the header line, then one line a row
download_csv(df) == <<df.columns>> \o df.rows

\* df.empty
Empty(df) == df.rows = <<>> \/ df.columns = <<>>

\* what a page rendered: st.error's message, st.dataframe's frame (or the frame a page
\* draws from), the data of its download buttons, and whether an exception left the
\* handler
NoUi == [error |-> None, rows |-> None, downloads |-> <<>>, raised |-> FALSE]

\* the inputs and locals of a run of the script
NoRun == [query |-> <<>>, clicked |-> FALSE, tables |-> <<>>, table |-> None,
          columns |-> <<>>, selected |-> <<>>, filter_cols |-> <<>>, filter_value |-> <<>>,
          params |-> <<>>, cnpj |-> <<>>]

Out(fx, u, r, b) == [fx |-> fx, ui |-> u, ret |-> r, built |-> b]

Ret(r) == Some([df |-> r.df, error |-> r.error])

Crashed == [NoUi EXCEPT !.raised = TRUE]

\* show_custom_query, lines 94-108
custom_result(r) ==
    IF r.error # None /\ Truthy(r.error[1])
    THEN Out(r.fx, [NoUi EXCEPT !.error = Some(<<"Erro na consulta: ">> \o r.error[1])],
             Ret(r), None)
    ELSE IF r.df = None THEN Out(r.fx, Crashed, Ret(r), None)           \* len(None)
    ELSE Out(r.fx,
             [NoUi EXCEPT !.rows = r.df,
                          !.downloads = IF ~Empty(r.df[1])
                                        THEN <<download_csv(r.df[1])>> ELSE <<>>],
             Ret(r), None)

show_custom_query(fx, query, clicked, tie) ==
    IF clicked /\ Truthy(query) THEN custom_result(execute_query(fx, query, tie))
    ELSE Out(fx, NoUi, None, None)

\* variant: the value compared whole, without the % on either side
WhereClausesExact(entered, filter_value) ==
    [i \in DOMAIN entered |->
        <<entered[i], " LIKE ", "'">> \o filter_value[entered[i]] \o <<"'">>]

\* where_clauses, lines 135-139
WhereClauses(entered, filter_value) ==
    [i \in DOMAIN entered |->
        <<entered[i], " LIKE ", "'", "%">> \o filter_value[entered[i]] \o <<"%", "'">>]

\* show_export, lines 128-142: the query text of a non-empty selection
ExportQuery(selected_table, selected_columns, filter_cols, filter_value) ==
    <<"SELECT ">> \o Join(selected_columns, ", ") \o <<" FROM ", selected_table>>
        \o (IF \E i \in DOMAIN filter_cols : Truthy(filter_value[filter_cols[i]])
            THEN <<" WHERE ">>
                     \o JoinT(WhereClauses(SelectSeq(filter_cols,
                                               LAMBDA col : Truthy(filter_value[col])),
                                           filter_value),
                              " AND ")
            ELSE <<>>)

\* variant: show_export without the test of line 149
export_result_unchecked(r, query) ==
    IF r.df = None THEN Out(r.fx, Crashed, Ret(r), Some(query))
    ELSE Out(r.fx,
             [NoUi EXCEPT !.rows = r.df, !.downloads = <<download_csv(r.df[1])>>],
             Ret(r), Some(query))

\* show_export, lines 147-160
export_result(r, query) ==
    IF r.error # None /\ Truthy(r.error[1])
    THEN Out(r.fx, [NoUi EXCEPT !.error = Some(<<"Erro na consulta: ">> \o r.error[1])],
             Ret(r), Some(query))
    ELSE IF r.df = None THEN Out(r.fx, Crashed, Ret(r), Some(query))    \* len(None)
    ELSE Out(r.fx,
             [NoUi EXCEPT !.rows = r.df, !.downloads = <<download_csv(r.df[1])>>],
             Ret(r), Some(query))

\* show_export, lines 145-160: the button runs the query and shows what came back
export_run(fx, query, tie) == export_result(execute_query(fx, query, tie), query)

\* the columns the page reads from the first row of the result
CnpjDisplayed ==
    {"razao_social", "capital_social", "logradouro", "numero", "bairro", "municipio", "uf", "cep"}

\* show_cnpj_search, lines 179-208
cnpj_result(r) ==
    IF r.raised THEN Out(r.fx, Crashed, None, None)
    ELSE IF Empty(r.df)
    THEN Out(Close(r.fx),
             [NoUi EXCEPT !.error = Some(<<"CNPJ nao encontrado na base de dados.">>)],
             None, None)
    ELSE IF ~(CnpjDisplayed \subseteq Range(r.df.columns))
    THEN Out(Close(r.fx), Crashed, None, None)                          \* KeyError
    ELSE Out(Close(r.fx),
             [NoUi EXCEPT !.rows = Some(r.df), !.downloads = <<download_csv(r.df)>>],
             None, None)

\* variant: the CNPJ written into the text instead of bound
show_cnpj_search_interpolated(fx, cnpj) ==
    IF ~Truthy(cnpj) THEN Out(fx, NoUi, None, None)
    ELSE cnpj_result(read_sql_query(get_db_connection(fx),
             <<"SELECT e.*, est.* FROM Empresas e LEFT JOIN Estabelecimentos est ON e.cnpj_basico = est.cnpj_basico WHERE e.cnpj_basico = '">>
                 \o Take(cnpj, 8) \o <<"'">>,
             <<>>, FALSE))

show_cnpj_search(fx, cnpj) ==
    IF ~Truthy(cnpj) THEN Out(fx, NoUi, None, None)
    ELSE cnpj_result(read_sql_query(get_db_connection(fx), CnpjQuery,
                                    <<Some(Take(cnpj, 8))>>, FALSE))

ImportDefault == {"VL_FOB", "KG_LIQUIDO", "QT_ESTAT"}

NoFilters(fx) == [raised |-> TRUE, anos |-> {}, ufs |-> {}, available |-> <<>>, fx |-> fx]

\* line 231: available_columns
import_columns(a, u, cols) ==
    [raised |-> FALSE,
     anos |-> {a.df.rows[i][1] : i \in DOMAIN a.df.rows},
     ufs |-> {u.df.rows[i][1] : i \in DOMAIN u.df.rows},
     available |-> cols.value, fx |-> cols.fx]

\* lines 225-231: the options of the UF select box, then the columns
import_ufs(a, u) ==
    IF u.raised THEN NoFilters(u.fx)
    ELSE import_columns(a, u, get_table_columns(u.fx, "Importacao"))

\* lines 219-231: the options of the year select box, then the rest
import_anos(a) ==
    IF a.raised THEN NoFilters(a.fx)
    ELSE import_ufs(a, read_sql_query(a.fx,
                           <<"SELECT ", "DISTINCT ", "SG_UF", " FROM ", "Importacao">>,
                           <<>>, FALSE))

\* show_import_analysis, lines 213-231: the connection, the options of the two
\* select boxes and the columns offered
import_filters(fx) ==
    import_anos(read_sql_query(get_db_connection(fx),
                               <<"SELECT ", "DISTINCT ", "CO_ANO", " FROM ", "Importacao">>,
                               <<>>, FALSE))

\* st.selectbox: one of the options, None when there is none
Choices(options) == IF options = {} THEN {None} ELSE {Some(x) : x \in options}

\* show_import_analysis, lines 240-248
ImportQuery(selected_columns) ==
    <<"SELECT ", "CO_ANO", ", ", "CO_MES", ", ">> \o Join(selected_columns, ", ")
        \o <<" FROM ", "Importacao", " WHERE ", "CO_ANO", " = ?", " AND ", "SG_UF", " = ?">>

\* show_import_analysis, lines 251-272
import_result(r, query) ==
    IF r.raised THEN Out(r.fx, Crashed, None, Some(query))
    ELSE IF Empty(r.df) THEN Out(Close(r.fx), NoUi, None, Some(query))
    ELSE Out(Close(r.fx),
             [NoUi EXCEPT !.rows = Some(r.df), !.downloads = <<download_csv(r.df)>>],
             None, Some(query))

\* variant: show_import_analysis without the test of line 238
import_selected_unguarded(f, ano, uf, selected_columns) ==
    IF f.raised THEN Out(f.fx, Crashed, None, None)
    ELSE IF ~(ImportDefault \subseteq Range(f.available))
    THEN Out(f.fx, Crashed, None, None)
    ELSE import_result(read_sql_query(f.fx, ImportQuery(selected_columns), <<ano, uf>>, FALSE),
                       ImportQuery(selected_columns))

\* show_import_analysis, lines 232-250
import_selected(f, ano, uf, selected_columns) ==
    IF f.raised THEN Out(f.fx, Crashed, None, None)
    ELSE IF ~(ImportDefault \subseteq Range(f.available))
    THEN Out(f.fx, Crashed, None, None)              \* multiselect: default not in options
    ELSE IF selected_columns = <<>> THEN Out(f.fx, NoUi, None, None)
    ELSE import_result(read_sql_query(f.fx, ImportQuery(selected_columns), <<ano, uf>>, FALSE),
                       ImportQuery(selected_columns))

show_import_analysis(fx, ano, uf, selected_columns) ==
    import_selected(import_filters(fx), ano, uf, selected_columns)

DashboardDefault == {"VL_FOB", "KG_LIQUIDO"}

TopN == 5

\* line 289: columns_str
SumColumns(selected_columns) ==
    JoinT([i \in DOMAIN selected_columns |->
              <<"SUM(", selected_columns[i], ") as ", selected_columns[i]>>], ", ")

\* variant: the top-states query without DESC
TopStatesQueryAscending(selected_columns) ==
    <<"SELECT ", "SG_UF", ", ">> \o SumColumns(selected_columns)
        \o <<" FROM ", "Importacao", " GROUP BY ", "SG_UF",
             " ORDER BY ", "SUM(", selected_columns[1], ")", " LIMIT ">>
        \o IntText(TopN)

\* show_dashboard, lines 289-298
TopStatesQuery(selected_columns) ==
    <<"SELECT ", "SG_UF", ", ">> \o SumColumns(selected_columns)
        \o <<" FROM ", "Importacao", " GROUP BY ", "SG_UF",
             " ORDER BY ", "SUM(", selected_columns[1], ")", " DESC", " LIMIT ">>
        \o IntText(TopN)

\* show_dashboard, lines 314-321
MonthQuery(selected_columns) ==
    <<"SELECT ", "CO_MES", ", ">> \o SumColumns(selected_columns)
        \o <<" FROM ", "Importacao", " GROUP BY ", "CO_MES", " ORDER BY ", "CO_MES">>

\* show_dashboard, lines 323-351
dashboard_months(e, m, query) ==
    IF m.raised THEN Out(m.fx, Crashed, None, Some(query))
    ELSE Out(Close(m.fx),
             [NoUi EXCEPT !.rows = Some(e.df),
                          !.downloads = <<download_csv(e.df), download_csv(m.df)>>],
             None, Some(query))

\* show_dashboard, lines 300-351
dashboard_states(e, selected_columns, tie) ==
    IF e.raised THEN Out(e.fx, Crashed, None, Some(TopStatesQuery(selected_columns)))
    ELSE dashboard_months(e, read_sql_query(e.fx, MonthQuery(selected_columns), <<>>, tie),
                          TopStatesQuery(selected_columns))

\* show_dashboard, lines 281-351
dashboard_selected(cols, selected_columns, tie) ==
    IF ~(DashboardDefault \subseteq Range(cols.value))
    THEN Out(cols.fx, Crashed, None, None)           \* multiselect: default not in options
    ELSE IF selected_columns = <<>> THEN Out(cols.fx, NoUi, None, None)
    ELSE dashboard_states(read_sql_query(cols.fx, TopStatesQuery(selected_columns), <<>>, tie),
                          selected_columns, tie)

show_dashboard(fx, selected_columns, tie) ==
    dashboard_selected(get_table_columns(get_db_connection(fx), "Importacao"),
                       selected_columns, tie)

(***************************************************************************)
(* Ingestion: the Format Normalizer and the Ingestion Coordinator.  A file *)
(* has a filename stem, an extension and what its format parser finds in   *)
(* it: the raw tables (one for CSV and JSON, any number for HTML) and      *)
(* whether the payload parses at all.  A CSV or HTML raw table has a       *)
(* header and lines of cells; a JSON raw table has records, each a         *)
(* sequence of <<key, value>> pairs.                                       *)
(***************************************************************************)
SupportedExtensions == {"csv", "json", "html"}

\* the value of key in a JSON record, Null when the record has no such key
Field(record, key) ==
    IF \E i \in DOMAIN record : record[i][1] = key
    THEN record[CHOOSE i \in DOMAIN record : record[i][1] = key][2]
    ELSE Null

\* the keys of the records, in order of first appearance
JsonKeys(records) ==
    Distinct(Flatten([i \in DOMAIN records |->
                         [j \in DOMAIN records[i] |-> records[i][j][1]]]))

\* JSON: the union of the keys is the column set, a missing key a NULL cell
JsonTable(records, keys) ==
    [error |-> None, columns |-> keys,
     rows |-> [i \in DOMAIN records |-> [j \in DOMAIN keys |-> Field(records[i], keys[j])]]]

\* CSV, and the first table of an HTML document: lines that do not fit the header
\* are dropped
RawTable(raw) ==
    [error |-> None, columns |-> raw.header,
     rows |-> SelectSeq(raw.lines, LAMBDA line : Len(line) = Len(raw.header))]

NotNormalized(error) == [error |-> Some(<<error>>), columns |-> <<>>, rows |-> <<>>]

normalize(file) ==
    IF file.ext \notin SupportedExtensions THEN NotNormalized("UnsupportedFormat")
    ELSE IF ~file.parses THEN NotNormalized("ParseFailure")
    ELSE IF file.ext = "html" /\ file.tables = <<>> THEN NotNormalized("NoTableFound")
    ELSE IF file.ext = "json" THEN JsonTable(file.tables[1].lines, JsonKeys(file.tables[1].lines))
    ELSE RawTable(file.tables[1])

Filename(file) == <<file.stem, ".", file.ext>>

\* variant: the table added beside the one of the same name
WrittenMerged(st, file, n) ==
    IF n.error # None
    THEN [st |-> st,
          outcome |-> [filename |-> Filename(file), rows_written |-> None, error |-> n.error]]
    ELSE [st |-> Append(st, [name |-> file.stem, columns |-> n.columns, rows |-> n.rows]),
          outcome |-> [filename |-> Filename(file), rows_written |-> Some(Len(n.rows)),
                       error |-> None]]

\* write with replace-existing semantics, or record the error
Written(st, file, n) ==
    IF n.error # None
    THEN [st |-> st,
          outcome |-> [filename |-> Filename(file), rows_written |-> None, error |-> n.error]]
    ELSE [st |-> Append(Without(st, file.stem),
                        [name |-> file.stem, columns |-> n.columns, rows |-> n.rows]),
          outcome |-> [filename |-> Filename(file), rows_written |-> Some(Len(n.rows)),
                       error |-> None]]

\* one file of a batch: normalize, then replace the table named by the stem
ingest_file(st, file) == Written(st, file, normalize(file))

(***************************************************************************)
(* The data the model runs on.                                             *)
(***************************************************************************)
SP == <<"S", "P">>
RJ == <<"R", "J">>

Acme == <<"1", "2", "3", "4", "5", "6", "7", "8">>
Solo == <<"0", "0", "0", "0", "0", "0", "5", "9">>

Empresas ==
    [name |-> "Empresas",
     columns |-> <<"cnpj_basico", "razao_social", "capital_social">>,
     rows |-> << <<Acme, <<"A", "c", "m", "e">>, 1000>>, <<Solo, <<"S", "o", "l", "o">>, 50>> >>]

Estabelecimentos ==
    [name |-> "Estabelecimentos",
     columns |-> <<"cnpj_basico", "logradouro", "numero", "bairro", "municipio", "uf", "cep">>,
     rows |-> << <<Acme, <<"R", "u", "a">>, <<"1", "0">>, <<"S", "e">>, <<"S", "P">>, SP,
                   <<"0", "1", "0", "0", "1">>>> >>]

ImportacaoColumns == <<"CO_ANO", "CO_MES", "SG_UF", "VL_FOB", "KG_LIQUIDO", "QT_ESTAT">>

Importacao ==
    [name |-> "Importacao", columns |-> ImportacaoColumns,
     rows |-> << <<2023, 1, SP, 5, 1, 1>>, <<2023, 2, RJ, 7, 2, 1>>, <<2024, 1, SP, 1, 1, 2>> >>]

BaseStore == <<Empresas, Estabelecimentos, Importacao>>

CsvFile(stem, header, lines) ==
    [stem |-> stem, ext |-> "csv", parses |-> TRUE,
     tables |-> <<[header |-> header, lines |-> lines]>>]

\* re-uploads of Importacao: one without VL_FOB, one without CO_MES
ImportacaoNoFob ==
    CsvFile("Importacao", <<"CO_ANO", "CO_MES", "SG_UF", "KG_LIQUIDO">>,
            << <<2023, 1, SP, 1>>, <<2024, 3, RJ, 2>> >>)

ImportacaoNoMes ==
    CsvFile("Importacao", <<"CO_ANO", "SG_UF", "VL_FOB", "KG_LIQUIDO", "QT_ESTAT">>,
            << <<2023, SP, 5, 1, 1>>, <<2024, RJ, 2, 2, 2>> >>)

\* vendas.csv: ANO;UF;VL with one ragged line, which the normalizer drops
VendasCsv ==
    CsvFile("vendas", <<"ANO", "UF", "VL">>,
            << <<2023, SP, 100>>, <<2023, RJ>>, <<2023, RJ, 200>> >>)

VendasJson ==
    [stem |-> "vendas", ext |-> "json", parses |-> TRUE,
     tables |-> <<[header |-> <<>>,
                   lines |-> << << <<"UF", SP>>, <<"municipio", <<"S", "P">>>> >>,
                                << <<"UF", RJ>> >> >>]>>]

ClientesHtml ==
    [stem |-> "clientes", ext |-> "html", parses |-> TRUE,
     tables |-> <<[header |-> <<"CNPJ">>, lines |-> << <<<<"1", "1", "6", "0">>>> >>],
                  [header |-> <<"UF">>, lines |-> << <<SP>> >>]>>]

NotasXlsx == [stem |-> "notas", ext |-> "xlsx", parses |-> TRUE, tables |-> <<>>]

VaziaHtml == [stem |-> "vendas", ext |-> "html", parses |-> TRUE, tables |-> <<>>]

QuebradoJson == [stem |-> "clientes", ext |-> "json", parses |-> FALSE, tables |-> <<>>]

\* the files other sessions upload while a page runs
DriftFiles == {ImportacaoNoFob, ImportacaoNoMes, VendasCsv}

\* the files of the upload batches
BatchFiles == {VendasCsv, VendasJson, ClientesHtml, NotasXlsx, VaziaHtml, QuebradoJson}

Stems == {f.stem : f \in DriftFiles \cup BatchFiles}

\* a file the normalizer cannot turn into a table
Malformed(file) ==
    \/ file.ext \notin SupportedExtensions
    \/ ~file.parses
    \/ file.ext = "html" /\ file.tables = <<>>

(***************************************************************************)
(* State.                                                                  *)
(***************************************************************************)
VARIABLES
    store,      \* the tables of cnpj.db
    pc,         \* where the running script is: "idle" between runs
    page,       \* the page of the current (or last) run
    run,        \* the inputs and locals of that run
    conns,      \* connections that run opened and closed
    log,        \* statements that run executed: text, params, whether it raised
    built,      \* the query text that run built from the column selection, or None
    ret,        \* the pair execute_query returned in that run, or None
    ui,         \* what the page rendered
    atExec,     \* the columns of the export's table when its query executed
    step,       \* the operation that made the last step
    prev,       \* the lookup run before the current one
    batch,      \* the files of the upload being ingested
    outcomes,   \* the outcome of each file processed so far
    last,       \* per table name, the table of the last successful ingestion
    before      \* the store before the last file was processed

vars == <<store, pc, page, run, conns, log, built, ret, ui, atExec, step, prev,
          batch, outcomes, last, before>>

ingestion == <<batch, outcomes, last, before>>

MaxSel == 2
ExportSel == 1
LookupSel == 1
DashSel == 1
FilterSel == 2
MaxBatch == 3
MaxFob == 1

NoConns == [opened |-> 0, closed |-> 0]

NotExecuted == [ran |-> FALSE, columns |-> <<>>]

\* the run so far, as the calls of the next step see it
CurFx == [st |-> store, opened |-> conns.opened, closed |-> conns.closed, log |-> log]

\* what the calls of a step changed
Effects(fx) ==
    /\ store' = fx.st
    /\ conns' = [opened |-> fx.opened, closed |-> fx.closed]
    /\ log' = fx.log

\* before a run of the script: nothing rendered, nothing opened
FreshSession ==
    /\ pc' = "idle" /\ page' = "none" /\ run' = NoRun /\ conns' = NoConns /\ log' = <<>>
    /\ built' = None /\ ret' = None /\ ui' = NoUi /\ atExec' = NotExecuted
    /\ step' = "none"
    /\ batch' = <<>> /\ outcomes' = <<>> /\ before' = <<>>

InitSession ==
    /\ pc = "idle" /\ page = "none" /\ run = NoRun /\ conns = NoConns /\ log = <<>>
    /\ built = None /\ ret = None /\ ui = NoUi /\ atExec = NotExecuted
    /\ step = "none" /\ prev = None
    /\ batch = <<>> /\ outcomes = <<>> /\ last = [t \in Stems |-> None] /\ before = <<>>

\* a handler returned: the run is over
Finish(out, pg, r) ==
    /\ Effects(out.fx)
    /\ ui' = out.ui /\ ret' = out.ret /\ built' = out.built
    /\ page' = pg /\ run' = r /\ pc' = "done" /\ step' = pg
    /\ atExec' = NotExecuted

\* the next interaction runs the script again from the top
NewRun ==
    /\ pc = "done"
    /\ FreshSession
    /\ UNCHANGED <<store, prev, last>>

\* the ad-hoc texts typed into show_custom_query
AdHocQueries ==
    { <<>>,
      <<"SELECT ", "SG_UF", ", ", "VL_FOB", " FROM ", "Importacao">>,
      <<"SELECT ", "UF", " FROM ", "vendas", " WHERE ", "UF", " LIKE ", "'", "%", "X", "%", "'">>,
      <<"SELEC">>,
      <<"DELETE FROM ", "Importacao">>,
      <<"DROP TABLE ", "vendas">>,
      <<"DROP TABLE ", "Empresas">> }

CustomQuery ==
    /\ pc = "idle"
    /\ \E query \in AdHocQueries, clicked \in BOOLEAN :
           Finish(show_custom_query(Fx(store), query, clicked, FALSE), "custom",
                  [NoRun EXCEPT !.query = query, !.clicked = clicked])
    /\ UNCHANGED <<prev, ingestion>>

\* show_export, line 115: the table selected among the ones listed
TableSelected(t) ==
    /\ Effects(t.fx)
    /\ \E table \in Choices(Range(t.value)) :
           /\ run' = [NoRun EXCEPT !.tables = t.value, !.table = table]
           /\ pc' = IF table = None THEN "done" ELSE "export_columns"

\* show_export, lines 114-115: the tables listed and the one selected
ExportTables ==
    /\ pc = "idle"
    /\ TableSelected(get_available_tables(Fx(store)))
    /\ page' = "export" /\ step' = "export"
    /\ ui' = NoUi /\ ret' = None /\ built' = None /\ atExec' = NotExecuted
    /\ UNCHANGED <<prev, ingestion>>

\* show_export, lines 128-145: the filters, the query text and the button
QueryBuilt(c, selected_columns, filter_cols, filter_value, clicked) ==
    /\ run' = [run EXCEPT !.columns = c.value,
                          !.selected = selected_columns,
                          !.filter_cols = filter_cols,
                          !.filter_value = filter_value,
                          !.query = ExportQuery(run.table[1], selected_columns,
                                                filter_cols, filter_value),
                          !.clicked = clicked]
    /\ built' = Some(ExportQuery(run.table[1], selected_columns, filter_cols, filter_value))
    /\ pc' = IF clicked THEN "export_run" ELSE "done"

\* show_export, lines 120-145: the selection among the columns listed
ColumnsSelected(c, values, maxSel, maxFilter) ==
    /\ Effects(c.fx)
    /\ \E selected_columns \in Selections(Range(c.value), maxSel) :
           IF selected_columns = <<>>
           THEN /\ run' = [run EXCEPT !.columns = c.value]
                /\ built' = None
                /\ pc' = "done"
           ELSE \E filter_cols \in Selections(Range(selected_columns), maxFilter) :
                \E filter_value \in [Range(filter_cols) -> values], clicked \in BOOLEAN :
                    QueryBuilt(c, selected_columns, filter_cols, filter_value, clicked)

\* show_export, lines 119-145: the columns listed, the selection, the filters, the
\* query text, and whether the button is pressed
ExportColumns(values, maxSel, maxFilter) ==
    /\ pc = "export_columns"
    /\ ColumnsSelected(get_table_columns(CurFx, run.table[1]), values, maxSel, maxFilter)
    /\ step' = "export"
    /\ UNCHANGED <<page, ui, ret, atExec, prev, ingestion>>

Shown(out) == Effects(out.fx) /\ ui' = out.ui /\ ret' = out.ret

\* show_export, lines 146-160
ExportRun ==
    /\ pc = "export_run"
    /\ Shown(export_run(CurFx, run.query, FALSE))
    /\ atExec' = [ran |-> TRUE,
                  columns |-> IF HasTable(store, run.table[1])
                              THEN Table(store, run.table[1]).columns ELSE <<>>]
    /\ pc' = "done" /\ step' = "export"
    /\ UNCHANGED <<page, run, built, prev, ingestion>>

CnpjInputs ==
    { <<>>, <<"1", "2", "3">>, Acme, Solo,
      Acme \o <<"0", "0", "0", "1", "9", "5">>,
      Acme \o <<"0", "0", "0", "2", "7", "6">> }

CnpjSearch ==
    /\ pc = "idle"
    /\ \E cnpj \in CnpjInputs :
           Finish(show_cnpj_search(Fx(store), cnpj), "cnpj", [NoRun EXCEPT !.cnpj = cnpj])
    /\ UNCHANGED <<prev, ingestion>>

\* show_import_analysis, lines 219-237: what the two select boxes and the multiselect
\* offer, and what is chosen
ImportChosen(f, maxSel) ==
    \E ano \in Choices(f.anos), uf \in Choices(f.ufs),
       selected_columns \in Selections(Range(f.available), maxSel) :
        Finish(show_import_analysis(Fx(store), ano, uf, selected_columns), "import",
               [NoRun EXCEPT !.selected = selected_columns, !.params = <<ano, uf>>])

ImportAnalysis(maxSel) ==
    /\ pc = "idle"
    /\ ImportChosen(import_filters(Fx(store)), maxSel)
    /\ UNCHANGED <<prev, ingestion>>

Dashboard(maxSel) ==
    /\ pc = "idle"
    /\ \E selected_columns \in
              Selections(Range(get_table_columns(Fx(store), "Importacao").value), maxSel),
          tie \in BOOLEAN :
           Finish(show_dashboard(Fx(store), selected_columns, tie), "dashboard",
                  [NoRun EXCEPT !.selected = selected_columns])
    /\ UNCHANGED <<prev, ingestion>>

\* another session uploads a file before or while this one runs; an upload after the
\* run returned is seen from the next run on
OtherSessionIngest ==
    /\ pc # "done"
    /\ \E file \in DriftFiles : store' = ingest_file(store, file).st
    /\ step' = "ingest"
    /\ UNCHANGED <<pc, page, run, conns, log, built, ret, ui, atExec, prev, ingestion>>

ExportValues == {<<>>, <<"6", "0">>}

Init == store = BaseStore /\ InitSession

Next ==
    \/ CustomQuery
    \/ ExportTables
    \/ ExportColumns(ExportValues, ExportSel, ExportSel)
    \/ ExportRun
    \/ CnpjSearch
    \/ ImportAnalysis(MaxSel)
    \/ Dashboard(MaxSel)
    \/ OtherSessionIngest
    \/ NewRun

Spec == Init /\ [][Next]_vars

(***************************************************************************)
(* The lookups alone, each run remembered by the next one.                 *)
(***************************************************************************)
\* the text of the lookup the run executed, None when it executed none
LookupText ==
    IF log # <<>> /\ (page = "cnpj" \/ built # None) THEN Some(log[Len(log)].text) ELSE None

NextLookup ==
    /\ pc = "done"
    /\ FreshSession
    /\ prev' = Some([page |-> page, cnpj |-> run.cnpj, selected |-> run.selected,
                     params |-> run.params, text |-> LookupText])
    /\ UNCHANGED <<store, last>>

NextLookups ==
    \/ CnpjSearch
    \/ ImportAnalysis(LookupSel)
    \/ NextLookup

SpecLookup == Init /\ [][NextLookups]_vars

(***************************************************************************)
(* The export page on a table of text columns, with filter values that     *)
(* hold digits, letters of either case and the LIKE wildcards.             *)
(***************************************************************************)
Clientes ==
    [name |-> "clientes", columns |-> <<"CNPJ", "NOME">>,
     rows |-> << << <<"1", "1", "6", "0">>, <<"a", "B">> >>,
                 << <<"0", "0", "5", "9">>, <<"b", "a">> >>,
                 << <<"6", "5", "0">>, Null >>,
                 << <<"6", "_", "0">>, <<"A", "%">> >> >>]

LikeValues ==
    { <<>>, <<"6", "0">>, <<"5", "9">>, <<"6", "_", "0">>, <<"b">>, <<"%">>, <<"'">> }

InitExport == store = <<Clientes>> /\ InitSession

NextExport ==
    \/ ExportTables
    \/ ExportColumns(LikeValues, FilterSel, FilterSel)
    \/ ExportRun
    \/ NewRun

SpecExport == InitExport /\ [][NextExport]_vars

(***************************************************************************)
(* The dashboard on Importacao tables of six states, four of them with any *)
(* VL_FOB up to MaxFob, so that sums tie and LIMIT leaves a state out.     *)
(***************************************************************************)
UFs == <<SP, RJ, <<"M", "G">>, <<"R", "S">>, <<"P", "R">>, <<"B", "A">>>>

ImportacaoOf(fob) ==
    [name |-> "Importacao", columns |-> ImportacaoColumns,
     rows |-> << <<2023, 1, SP, 2, 1, 1>>, <<2023, 2, RJ, 2, 2, 1>>, <<2024, 1, SP, 1, 1, 2>> >>
              \o [i \in DOMAIN fob |-> <<2024, 1 + (i % 2), UFs[i + 2], fob[i], i, 1>>]]

InitDashboard ==
    /\ \E fob \in [1..(Len(UFs) - 2) -> 0..MaxFob] : store = <<ImportacaoOf(fob)>>
    /\ InitSession

NextDashboard ==
    \/ Dashboard(DashSel)
    \/ NewRun

SpecDashboard == InitDashboard /\ [][NextDashboard]_vars

(***************************************************************************)
(* Ingestion: upload batches, and the export page's listing of tables and  *)
(* columns between them.                                                   *)
(***************************************************************************)
\* the non-empty batches of at most n files
Batches(n) == Pick(BatchFiles, n) \ {<<>>}

StartBatch ==
    /\ pc = "idle"
    /\ \E b \in Batches(MaxBatch) : batch' = b
    /\ pc' = "ingesting" /\ page' = "ingest" /\ step' = "ingest"
    /\ outcomes' = <<>> /\ before' = store
    /\ UNCHANGED <<store, run, conns, log, built, ret, ui, atExec, prev, last>>

\* the table a successful ingestion of the file is to leave, and whether it replaces
\* a table of another schema
Remembered(file, n) ==
    IF n.error # None THEN last
    ELSE [last EXCEPT ![file.stem] =
              Some([columns |-> n.columns, rows |-> n.rows,
                    replaced |-> HasTable(store, file.stem)
                                 /\ Table(store, file.stem).columns # n.columns])]

\* variant: the batch ends at the first file that fails
IngestedAborting(file, w) ==
    /\ store' = w.st
    /\ outcomes' = Append(outcomes, w.outcome)
    /\ before' = store
    /\ last' = Remembered(file, normalize(file))
    /\ pc' = IF Len(outcomes) + 1 = Len(batch) \/ w.outcome.error # None
             THEN "done" ELSE "ingesting"

Ingested(file, w) ==
    /\ store' = w.st
    /\ outcomes' = Append(outcomes, w.outcome)
    /\ before' = store
    /\ last' = Remembered(file, normalize(file))
    /\ pc' = IF Len(outcomes) + 1 = Len(batch) THEN "done" ELSE "ingesting"

\* the coordinator takes the next file of the batch
IngestNext ==
    /\ pc = "ingesting"
    /\ Ingested(batch[Len(outcomes) + 1], ingest_file(store, batch[Len(outcomes) + 1]))
    /\ step' = "ingest"
    /\ UNCHANGED <<page, run, conns, log, built, ret, ui, atExec, prev, batch>>

NextIngest ==
    \/ StartBatch
    \/ IngestNext
    \/ ExportTables
    \/ ExportColumns({<<>>}, 0, 0)
    \/ NewRun

SpecIngest == Init /\ [][NextIngest]_vars

(***************************************************************************)
(* The properties.                                                         *)
(***************************************************************************)
SelectionPages == {"export", "import", "dashboard"}

PageSteps == {"custom", "export", "cnpj", "import", "dashboard"}

\* a statement that lists the tables, a table's columns, or the options of one of
\* the import page's select boxes
IsOptionText(text) ==
    \/ text = MasterQuery
    \/ Len(text) = 3 /\ text[1] = "PRAGMA table_info(" /\ text[3] = ")"
    \/ text = <<"SELECT ", "DISTINCT ", "CO_ANO", " FROM ", "Importacao">>
    \/ text = <<"SELECT ", "DISTINCT ", "SG_UF", " FROM ", "Importacao">>

\* C1, as amended: on the export, import-analysis and dashboard pages, while the
\* column selection is empty no query text is built from it, and the only statements
\* the interaction executes are the fixed ones that fill the page's widgets (the
\* catalog listing, the column listing, the year and UF options).
C1_EmptySelectionBuildsNothing ==
    (page \in SelectionPages /\ run.selected = <<>>) =>
        /\ built = None
        /\ \A i \in DOMAIN log : IsOptionText(log[i].text)

\* C1 as stated: with an empty selection no query at all is executed against the
\* store during the interaction.
C1_EmptySelectionExecutesNothing ==
    (page \in SelectionPages /\ pc = "done" /\ run.selected = <<>>) =>
        built = None /\ log = <<>>

\* an import-analysis run that offered the columns, got an empty selection and returned
C1_Witness ==
    /\ page = "import" /\ pc = "done" /\ run.selected = <<>> /\ ~ui.raised
    /\ Len(log) = 3 /\ built = None

\* C2: when an interaction returns, every connection it opened has been closed.
C2_ConnectionsClosed == pc = "done" => conns.opened = conns.closed

\* C3: execute_query returns exactly one of a frame and an error message, the error
\* exactly when the execution raised; and when it returns an error, show_custom_query
\* and show_export show the error, no rows and no download button.
C3_ResultOrError ==
    /\ ret # None =>
          /\ (ret[1].df = None) # (ret[1].error = None)
          /\ log # <<>> /\ (log[Len(log)].raised <=> ret[1].error # None)
    /\ (page \in {"custom", "export"} /\ ret # None /\ ret[1].error # None) =>
          /\ ui.error # None /\ Truthy(ui.error[1])
          /\ ui.rows = None
          /\ ui.downloads = <<>>

\* an export whose query raised
C3_Witness ==
    /\ page = "export" /\ ret # None /\ ret[1].error # None /\ ret[1].df = None
    /\ ui.error # None /\ log[Len(log)].raised

IsDDL(text) == Len(text) = 2 /\ text[1] = "DROP TABLE "

\* C4, as amended: a step of a page handler leaves the tables of the store, their
\* columns and their rows unchanged, unless it is show_custom_query running an ad-hoc
\* text that is a DDL statement; in particular no handler-built query, no ad-hoc
\* SELECT and no ad-hoc DML statement changes the store, and no result is written back.
C4_OnlyAdHocDDLChangesStore ==
    [][(step' \in PageSteps /\ ~(step' = "custom" /\ IsDDL(run'.query))) => store' = store]_vars

\* C4 as stated: no step of a page handler changes the store, whatever the query text.
C4_QueriesLeaveStore == [][step' \in PageSteps => store' = store]_vars

\* an ad-hoc DELETE went through execute_query and the rows are still there
C4_Witness ==
    /\ step = "custom" /\ ret # None /\ run.query = <<"DELETE FROM ", "Importacao">>
    /\ HasTable(store, "Importacao") /\ Table(store, "Importacao").rows # <<>>

\* C8: when the export's query executes and a selected column is not in the table's
\* schema at that moment, execute_query returns an error and the page shows the
\* error, no rows and no download.
C8_DriftFailsAtExecution ==
    (atExec.ran /\ \E i \in DOMAIN run.selected : run.selected[i] \notin Range(atExec.columns)) =>
        /\ ret # None /\ ret[1].df = None /\ ret[1].error # None
        /\ ui.error # None /\ ui.rows = None /\ ui.downloads = <<>>

\* the selected column was listed by get_table_columns and gone when the query ran
C8_Witness ==
    /\ atExec.ran /\ run.selected # <<>>
    /\ Range(run.selected) \subseteq Range(run.columns)
    /\ run.selected[1] \notin Range(atExec.columns)
    /\ atExec.columns # <<>>
    /\ ui.error # None

\* the filter columns of the run with a non-empty value, in filter-column order
Entered == SelectSeq(run.filter_cols, LAMBDA c : Truthy(run.filter_value[c]))

\* the clause the WHERE part is to hold for filter column c
LikeClause(c) == <<c, " LIKE ", "'", "%">> \o run.filter_value[c] \o <<"%", "'">>

\* the built text is SELECT columns FROM table, then nothing when no filter value is
\* entered, else WHERE and one clause an entered filter, in order, joined by AND
WhereStructure(text) ==
    /\ Take(text, Pos(text, " FROM ") + 1)
           = <<"SELECT ">> \o Join(run.selected, ", ") \o <<" FROM ", run.table[1]>>
    /\ IF Entered = <<>> THEN Len(text) = Pos(text, " FROM ") + 1
       ELSE /\ text[Pos(text, " FROM ") + 2] = " WHERE "
            /\ Len(SplitOn(Drop(text, Pos(text, " FROM ") + 2), " AND ")) = Len(Entered)
            /\ \A i \in DOMAIN Entered :
                   SplitOn(Drop(text, Pos(text, " FROM ") + 2), " AND ")[i]
                       = LikeClause(Entered[i])

\* v occurs in s as a run of consecutive characters
Contains(s, v) ==
    \E k \in 0..(Len(s) - Len(v)) : \A j \in DOMAIN v : s[k + j] = v[j]

\* v occurs in s when the case of ASCII letters is ignored
ContainsFolded(s, v) ==
    \E k \in 0..(Len(s) - Len(v)) : \A j \in DOMAIN v : Fold(s[k + j]) = Fold(v[j])

\* a value without the LIKE wildcards and without a quote
Plain(v) == \A j \in DOMAIN v : v[j] \notin {"%", "_", "'"}

\* the selected columns of the rows of the run's table that satisfy Keeps
Projected(tb, Keeps(_, _)) ==
    [i \in DOMAIN SelectSeq(tb.rows, LAMBDA r : Keeps(tb, r)) |->
        [j \in DOMAIN run.selected |->
            Cell(tb, SelectSeq(tb.rows, LAMBDA r : Keeps(tb, r))[i], run.selected[j])]]

KeepsFolded(tb, r) ==
    \A i \in DOMAIN Entered :
        /\ Cell(tb, r, Entered[i]) # Null
        /\ ContainsFolded(Cell(tb, r, Entered[i]), run.filter_value[Entered[i]])

KeepsExact(tb, r) ==
    \A i \in DOMAIN Entered :
        /\ Cell(tb, r, Entered[i]) # Null
        /\ Contains(Cell(tb, r, Entered[i]), run.filter_value[Entered[i]])

RECURSIVE Total(_, _, _, _)
Total(tb, uf, c, n) ==
    IF n = 0 THEN 0
    ELSE Total(tb, uf, c, n - 1)
            + (IF Cell(tb, tb.rows[n], "SG_UF") = uf /\ c \in NumericColumns
               THEN Cell(tb, tb.rows[n], c) ELSE 0)

StatesOf(tb) == {Cell(tb, tb.rows[n], "SG_UF") : n \in DOMAIN tb.rows}

\* rows holds at most 5 states, each once, with the sums of the selected columns,
\* in descending order of the first sum, and no state left out has a greater first sum
TopStates(tb, rows) ==
    /\ Len(rows) = Min(5, Cardinality(StatesOf(tb)))
    /\ \A i \in DOMAIN rows : rows[i][1] \in StatesOf(tb)
    /\ \A i, j \in DOMAIN rows : i # j => rows[i][1] # rows[j][1]
    /\ \A i \in DOMAIN rows : \A k \in DOMAIN run.selected :
           rows[i][k + 1] = Total(tb, rows[i][1], run.selected[k], Len(tb.rows))
    /\ \A i, j \in DOMAIN rows : i < j => rows[i][2] >= rows[j][2]
    /\ \A uf \in StatesOf(tb) \ {rows[i][1] : i \in DOMAIN rows} : \A i \in DOMAIN rows :
           Total(tb, uf, run.selected[1], Len(tb.rows)) <= rows[i][2]

\* the text selects SG_UF and SUM(c) as c for each selected c, from Importacao,
\* grouped by SG_UF, ordered by SUM(first selected) descending, limited to 5
TopStatesText(text, q) ==
    /\ SelectOk(text)
    /\ q.items = <<[col |-> "SG_UF", agg |-> FALSE, alias |-> "SG_UF"]>>
                    \o [k \in DOMAIN run.selected |->
                           [col |-> run.selected[k], agg |-> TRUE, alias |-> run.selected[k]]]
    /\ q.table = "Importacao" /\ q.preds = <<>> /\ ~q.distinct
    /\ q.group = <<"SG_UF">>
    /\ q.order = Some([col |-> run.selected[1], agg |-> TRUE, desc |-> TRUE])
    /\ q.limit = Some(5)

IsPrefix8(p, s) ==
    /\ Len(p) = Min(8, Len(s))
    /\ \A i \in DOMAIN p : p[i] = s[i]

\* C7: show_cnpj_search executes one statement whose only parameter is the first 8
\* characters of the input, and show_import_analysis executes its query with the
\* chosen year and UF as its two parameters; and two cnpj searches, or two import
\* analyses of the same column selection, execute the same text whatever was
\* entered or chosen.
C7_LookupsBindParameters ==
    /\ (page = "cnpj" /\ log # <<>>) =>
          /\ Len(log) = 1 /\ Len(log[1].params) = 1 /\ log[1].params[1] # None
          /\ IsPrefix8(log[1].params[1][1], run.cnpj)
    /\ (page = "import" /\ built # None) =>
          /\ log[Len(log)].text = built[1]
          /\ Len(run.params) = 2 /\ log[Len(log)].params = run.params
    /\ (prev # None /\ prev[1].page = page /\ prev[1].text # None /\ LookupText # None
            /\ (page = "import" => prev[1].selected = run.selected)) =>
          prev[1].text = LookupText

\* two searches of different CNPJs, the second longer than 8 characters
C7_Witness ==
    /\ prev # None /\ prev[1].page = "cnpj" /\ page = "cnpj"
    /\ prev[1].text # None /\ LookupText # None
    /\ prev[1].cnpj # run.cnpj /\ Len(run.cnpj) > 8
    /\ log[1].params = <<Some(Acme)>>

\* C9: every table name ingested successfully holds the columns and the rows of its
\* most recent successful ingestion and is in the store once; and the export page's
\* next listing shows the name among the tables and those columns for it.
C9_LastIngestionWins ==
    /\ \A t \in Stems : last[t] # None =>
          /\ Cardinality({i \in DOMAIN store : store[i].name = t}) = 1
          /\ Table(store, t).columns = last[t][1].columns
          /\ Table(store, t).rows = last[t][1].rows
    /\ (page = "export" /\ pc \in {"export_columns", "done"}) =>
          \A t \in Stems : last[t] # None => t \in Range(run.tables)
    /\ (page = "export" /\ pc = "done" /\ run.table # None /\ run.table[1] \in Stems) =>
          (last[run.table[1]] # None => run.columns = last[run.table[1]][1].columns)

\* vendas was ingested over a vendas of another schema, and the export page lists
\* the columns of the JSON upload
C9_Witness ==
    /\ page = "export" /\ pc = "done" /\ run.table = Some("vendas")
    /\ last["vendas"] # None /\ last["vendas"][1].replaced
    /\ run.columns = <<"UF", "municipio">>
    /\ Len(Table(store, "vendas").rows) = 2

\* C10: the outcomes follow the files of the batch in order, one a file; a file has
\* an error outcome exactly when it is malformed and a row count otherwise; the
\* batch ends only when every file has an outcome, so a batch of N files with one
\* malformed file ends with N-1 successes and one error; a file that failed left
\* the store as it was, and a file that succeeded left its table in the store.
C10_BatchContinues ==
    /\ Len(outcomes) <= Len(batch)
    /\ (page = "ingest" /\ pc = "done") => Len(outcomes) = Len(batch)
    /\ \A i \in DOMAIN outcomes :
          /\ outcomes[i].filename = Filename(batch[i])
          /\ (outcomes[i].error # None) <=> Malformed(batch[i])
          /\ (outcomes[i].rows_written # None) <=> ~Malformed(batch[i])
    /\ (page = "ingest" /\ pc = "done"
            /\ Cardinality({k \in DOMAIN batch : Malformed(batch[k])}) = 1) =>
          /\ Cardinality({i \in DOMAIN outcomes : outcomes[i].error = None}) = Len(batch) - 1
          /\ Cardinality({i \in DOMAIN outcomes : outcomes[i].error # None}) = 1
    /\ (outcomes # <<>> /\ outcomes[Len(outcomes)].error # None) => store = before
    /\ (outcomes # <<>> /\ outcomes[Len(outcomes)].error = None) =>
          /\ HasTable(store, batch[Len(outcomes)].stem)
          /\ outcomes[Len(outcomes)].rows_written
                 = Some(Len(Table(store, batch[Len(outcomes)].stem).rows))

\* a batch of three whose second file is malformed, the third written after it
C10_Witness ==
    /\ page = "ingest" /\ pc = "done" /\ Len(batch) = 3
    /\ ~Malformed(batch[1]) /\ Malformed(batch[2]) /\ ~Malformed(batch[3])
    /\ batch[1].stem # batch[3].stem
    /\ outcomes[2].error # None /\ outcomes[3].error = None
    /\ HasTable(store, batch[1].stem) /\ HasTable(store, batch[3].stem)

====
